---------------------------- MODULE Spec2Model ----------------------------
(***************************************************************************)
(* A model of the memory-interpretation helpers of volatility's linux      *)
(* plugins (src/volatility/plugins/linux/common.py) and of the process     *)
(* tree root finder (src/branches/scudette/.../windows/pstree.py).         *)
(*                                                                         *)
(* Every helper is a sequential routine.  Each one is modelled as its own  *)
(* little state machine (a program counter plus the routine's locals and   *)
(* the part of the memory image it reads), and each has its own            *)
(* specification: SpecBoot, SpecPs, SpecOps, SpecCpu, SpecRadix, SpecFile  *)
(* and SpecPath.  While one routine runs the variables of the others stay  *)
(* at their idle values.                                                   *)
(***************************************************************************)
EXTENDS Integers, Sequences, FiniteSets, TLC

VARIABLES
    \* ---- get_boot_time / get_time_vars
    time_layout,    \* "timespec": wall_to_monotonic resolves; "timekeeper" otherwise
    wall,           \* the timespec read as wall_to_monotonic
    timeo,          \* the timespec read as total_sleep_time
    secs,           \* local secs
    nsecs,          \* local nsecs
    boot_time,      \* the returned value
    boot_pc,        \* position in get_boot_time
    \* ---- PSTree._find_root
    pid_dict,       \* pid -> InheritedFromUniqueProcessId, for the pids listed
    pid,            \* local pid
    seen,           \* local seen
    visited,        \* history: the pids in the order they were added to seen
    ps_pc,          \* position in _find_root
    \* ---- verify_ops / is_known_address
    known_addrs,    \* obj_ref.known_addrs: address -> 0 / 1, for the cached ones
    fops,           \* the operations structure of the running call: member -> pointer
    modules,        \* the module list of the running call
    check_i,        \* position of the running call in op_members
    yielded,        \* the pairs the running call has yielded
    calls,          \* number of verify_ops calls started in this invocation
    scans,          \* history: address -> number of is_known_address executions
    scan_modules,   \* history: address -> module list of its is_known_address execution
    answers,        \* history: address -> the classifications its occurrences got
    ops_pc,         \* position in verify_ops
    \* ---- online_cpus / walk_per_cpu_var
    bmap,           \* the online-CPU bitmap word of the image
    cpu_symbols,    \* the names the profile resolves
    cpus,           \* the list online_cpus returned
    cpu_i,          \* loop variable i
    cpu_yielded,    \* the (i, address) pairs yielded
    cpu_pc,         \* position in walk_per_cpu_var
    \* ---- the page tree of the inode in the image
    tree_h,         \* height of the radix tree (0: the root holds the item itself)
    stored_h,       \* the height field stored in the root's node
    pages,          \* the page-cache population: the resident page indices
    \* ---- radix_tree_lookup_slot
    rt_index,       \* argument index
    rt_node,        \* local node
    rt_height,      \* local height
    rt_shift,       \* local shift
    rt_slot,        \* local slot
    rt_reads,       \* history: the <<node, slot index>> reads, in order
    rt_result,      \* the returned value
    rt_pc,          \* position in radix_tree_lookup_slot
    \* ---- get_file_contents
    i_size,         \* inode.i_size
    fc_extra,       \* local extra
    fc_idxs,        \* local idxs
    fc_idx,         \* loop variable idx
    data,           \* local data
    fc_reads,       \* history: the page indices passed to get_page_contents
    fc_pc,          \* position in get_file_contents
    \* ---- do_get_path
    d_parent,       \* dentry -> d_parent
    d_name,         \* dentry -> the string at d_name.name
    d_name_valid,   \* dentry -> whether d_name.name is readable
    mnt_root,       \* mount -> mnt_root
    mnt_parent,     \* mount -> mnt_parent
    mnt_mountpoint, \* mount -> mnt_mountpoint
    rdentry,        \* argument rdentry
    rmnt,           \* argument rmnt
    dentry,         \* local dentry
    vfsmnt,         \* local vfsmnt
    inode,          \* local inode: the i_ino of the start dentry's inode
    ret_path,       \* local ret_path
    ret_val,        \* the returned value: <<>> for [], else the path string
    path_steps,     \* history: passes of the walk loop made so far
    path_pc,        \* position in do_get_path
    \* ---- phys_addr_of_page
    mem_map_addr,     \* what get_profile_symbol("mem_map") returns
    mem_section_addr, \* what get_profile_symbol("mem_section") returns
    mem_map_value,    \* the pointer stored at mem_map in the image
    page_size_of,     \* profile.get_obj_size("page")
    pa_page,          \* argument page
    pa_mem_map_ptr,   \* local mem_map_ptr; Unbound until assigned
    pa_phys_offset,      \* local pa_phys_offset, the returned value
    pa_model,         \* history: the branch taken, "flat", "sparse" or "none"
    pa_pc,            \* position in phys_addr_of_page
    \* ---- get_partial_path
    gp_dentry,      \* local dentry
    gp_path,        \* local path
    gp_steps,       \* history: passes of the loop made so far
    str_path,       \* the returned string
    gp_pc,          \* position in get_partial_path
    \* ---- PSTree.render
    parent_of,      \* pid -> InheritedFromUniqueProcessId of the listed tasks
    process_dict,   \* the pids still in process_dict
    frames,         \* the running draw_children calls, innermost last
    rows,           \* the pids of the table rows written, in order
    passes,         \* history: len(process_dict) at the start of each pass
    render_pc       \* position in render

bootVars == <<time_layout, wall, timeo, secs, nsecs, boot_time, boot_pc>>
psVars   == <<pid_dict, pid, seen, visited, ps_pc>>
opsVars  == <<known_addrs, fops, modules, check_i, yielded, calls, scans,
              scan_modules, answers, ops_pc>>
cpuVars  == <<bmap, cpu_symbols, cpus, cpu_i, cpu_yielded, cpu_pc>>
treeVars == <<tree_h, stored_h, pages>>
rtVars   == <<rt_index, rt_node, rt_height, rt_shift, rt_slot, rt_reads,
              rt_result, rt_pc>>
fcVars   == <<i_size, fc_extra, fc_idxs, fc_idx, data, fc_reads, fc_pc>>
pathVars == <<d_parent, d_name, d_name_valid, mnt_root, mnt_parent,
              mnt_mountpoint, rdentry, rmnt, dentry, vfsmnt, inode, ret_path,
              ret_val, path_steps, path_pc>>

paVars   == <<mem_map_addr, mem_section_addr, mem_map_value, page_size_of,
              pa_page, pa_mem_map_ptr, pa_phys_offset, pa_model, pa_pc>>
gpVars   == <<gp_dentry, gp_path, gp_steps, str_path, gp_pc>>
renderVars == <<parent_of, process_dict, frames, rows, passes, render_pc>>

vars == <<bootVars, psVars, opsVars, cpuVars, treeVars, rtVars, fcVars, pathVars,
          paVars, gpVars, renderVars>>

\* What each routine leaves alone: the variables of all the others.
notBoot == <<psVars, opsVars, cpuVars, treeVars, rtVars, fcVars, pathVars,
             paVars, gpVars, renderVars>>
notPs   == <<bootVars, opsVars, cpuVars, treeVars, rtVars, fcVars, pathVars,
             paVars, gpVars, renderVars>>
notOps  == <<bootVars, psVars, cpuVars, treeVars, rtVars, fcVars, pathVars,
             paVars, gpVars, renderVars>>
notCpu  == <<bootVars, psVars, opsVars, treeVars, rtVars, fcVars, pathVars,
             paVars, gpVars, renderVars>>
notRt   == <<bootVars, psVars, opsVars, cpuVars, fcVars, pathVars,
             paVars, gpVars, renderVars>>
notFc   == <<bootVars, psVars, opsVars, cpuVars, rtVars, pathVars,
             paVars, gpVars, renderVars>>
notPath == <<bootVars, psVars, opsVars, cpuVars, treeVars, rtVars, fcVars,
             paVars, gpVars, renderVars>>

notPa     == <<bootVars, psVars, opsVars, cpuVars, treeVars, rtVars, fcVars,
               pathVars, gpVars, renderVars>>
notGp     == <<bootVars, psVars, opsVars, cpuVars, treeVars, rtVars, fcVars,
               paVars, renderVars>>
notRender == <<bootVars, psVars, opsVars, cpuVars, treeVars, rtVars, fcVars,
               pathVars, paVars, gpVars>>

\* Python's None where the code holds an address, a slot or a number: a value
\* no pointer and no count of the image takes.
None == -2

\* Python's None where the code holds a module name.
NoName == "<None>"

----------------------------------------------------------------------------
(***************************************************************************)
(* get_boot_time (common.py 142-193)                                       *)
(***************************************************************************)

\* common.py:33
nsecs_per == 1000000000

\* Bound on the magnitude of the tv_sec fields drawn for the memory image.
MaxSec == 2

\* tv_sec values of the image: a small interval plus the documented -100.
SecVals == (-MaxSec .. MaxSec) \cup {-100}

\* tv_nsec values of the image: normalised ones, the edges, and damaged ones.
NsecVals == {-nsecs_per, -1, 0, 1, nsecs_per - 1, nsecs_per}

Timespecs == [tv_sec : SecVals, tv_nsec : NsecVals]

NoTimespec == [tv_sec |-> 0, tv_nsec |-> 0]

\* get_time_vars: the pair (wall, timeo) of whichever layout the profile has.
\* mem is the image: the two standalone timespecs and the timekeeper's two.
get_time_vars(layout, mem) ==
    IF layout = "timespec"
    THEN <<mem.wall_to_monotonic, mem.total_sleep_time>>
    ELSE <<mem.timekeeper.wall_to_monotonic, mem.timekeeper.total_sleep_time>>

\* The image of a kernel of the given layout holding the pair (w, s).
TimeImage(layout, w, s) ==
    IF layout = "timespec"
    THEN [wall_to_monotonic |-> w, total_sleep_time |-> s,
          timekeeper |-> [wall_to_monotonic |-> NoTimespec,
                          total_sleep_time |-> NoTimespec]]
    ELSE [wall_to_monotonic |-> NoTimespec, total_sleep_time |-> NoTimespec,
          timekeeper |-> [wall_to_monotonic |-> w, total_sleep_time |-> s]]

BootIdle ==
    /\ time_layout = "timespec"
    /\ wall = NoTimespec
    /\ timeo = NoTimespec
    /\ secs = 0
    /\ nsecs = 0
    /\ boot_time = None
    /\ boot_pc = "idle"

BootInit ==
    /\ time_layout \in {"timespec", "timekeeper"}
    /\ \E w \in Timespecs, s \in Timespecs :
          LET tv == get_time_vars(time_layout, TimeImage(time_layout, w, s))
          IN  /\ wall = tv[1]
              /\ timeo = tv[2]
    /\ secs = 0
    /\ nsecs = 0
    /\ boot_time = None
    /\ boot_pc = "sum"

\* lines 171-177: the sums, negated
BootSum ==
    /\ boot_pc = "sum"
    /\ secs' = (wall.tv_sec + timeo.tv_sec) * (-1)
    /\ nsecs' = (wall.tv_nsec + timeo.tv_nsec) * (-1)
    /\ boot_pc' = "carry"
    /\ UNCHANGED <<time_layout, wall, timeo, boot_time>>
    /\ UNCHANGED notBoot

\* lines 179-183: one pass of `while nsecs >= nsecs_per`
BootCarry ==
    /\ boot_pc = "carry"
    /\ nsecs >= nsecs_per
    /\ nsecs' = nsecs - nsecs_per
    /\ secs' = secs + 1
    /\ UNCHANGED <<time_layout, wall, timeo, boot_time, boot_pc>>
    /\ UNCHANGED notBoot

\* line 179: the first loop's condition is false
BootCarryDone ==
    /\ boot_pc = "carry"
    /\ ~(nsecs >= nsecs_per)
    /\ boot_pc' = "borrow"
    /\ UNCHANGED <<time_layout, wall, timeo, secs, nsecs, boot_time>>
    /\ UNCHANGED notBoot

\* lines 185-189: one pass of `while nsecs < 0`
BootBorrowKeepsSecs ==
    /\ boot_pc = "borrow"
    /\ nsecs < 0
    /\ nsecs' = nsecs + nsecs_per
    /\ UNCHANGED <<time_layout, wall, timeo, secs, boot_time, boot_pc>>
    /\ UNCHANGED notBoot

BootBorrow ==
    /\ boot_pc = "borrow"
    /\ nsecs < 0
    /\ nsecs' = nsecs + nsecs_per
    /\ secs' = secs - 1
    /\ UNCHANGED <<time_layout, wall, timeo, boot_time, boot_pc>>
    /\ UNCHANGED notBoot

\* lines 185, 191-193: the second loop's condition is false; the result.
\* Python 2 `/` on integers is floor division, as \div is for a positive divisor.
BootReturn ==
    /\ boot_pc = "borrow"
    /\ ~(nsecs < 0)
    /\ boot_time' = secs + ((nsecs \div nsecs_per) \div 100)
    /\ boot_pc' = "done"
    /\ UNCHANGED <<time_layout, wall, timeo, secs, nsecs>>
    /\ UNCHANGED notBoot

BootNext == BootSum \/ BootCarry \/ BootCarryDone \/ BootBorrow \/ BootReturn

----------------------------------------------------------------------------
(***************************************************************************)
(* PSTree._find_root (pstree.py 35-43)                                     *)
(***************************************************************************)

\* Bound: the pids of the image are 0 .. MaxPid.
MaxPid == 3

Pids == 0 .. MaxPid

\* The dictionaries _make_process_dict can build: some of the pids, each with
\* the pid it was inherited from, which need not be a listed one.
PidDicts == UNION {[D -> Pids] : D \in SUBSET Pids}

PsIdle ==
    /\ pid_dict = <<>>
    /\ pid = 0
    /\ seen = {}
    /\ visited = <<>>
    /\ ps_pc = "idle"

\* line 37: seen = set()
PsInit ==
    /\ pid_dict \in PidDicts
    /\ pid \in Pids
    /\ seen = {}
    /\ visited = <<>>
    /\ ps_pc = "loop"

\* A _find_root whose loop does not look at seen.
PsStepNoSeenCheck ==
    /\ ps_pc = "loop"
    /\ pid \in DOMAIN pid_dict
    /\ seen' = seen \cup {pid}
    /\ visited' = Append(visited, pid)
    /\ pid' = pid_dict[pid]
    /\ UNCHANGED <<pid_dict, ps_pc>>
    /\ UNCHANGED notPs

\* lines 39-41: one pass of the loop
PsStep ==
    /\ ps_pc = "loop"
    /\ pid \in DOMAIN pid_dict /\ pid \notin seen
    /\ seen' = seen \cup {pid}
    /\ visited' = Append(visited, pid)
    /\ pid' = pid_dict[pid]
    /\ UNCHANGED <<pid_dict, ps_pc>>
    /\ UNCHANGED notPs

\* lines 39, 43: the loop condition is false; return pid
PsReturn ==
    /\ ps_pc = "loop"
    /\ ~(pid \in DOMAIN pid_dict /\ pid \notin seen)
    /\ ps_pc' = "done"
    /\ UNCHANGED <<pid_dict, pid, seen, visited>>
    /\ UNCHANGED notPs

PsNext == PsStep \/ PsReturn

----------------------------------------------------------------------------
(***************************************************************************)
(* verify_ops, is_known_address, address_in_module (common.py 423-464)     *)
(***************************************************************************)

\* Bound: the pointers of an operations structure are 0 (null) .. MaxAddr.
MaxAddr == 3

\* Bound: verify_ops calls made in one invocation.
MaxCalls == 2

Addrs == 0 .. MaxAddr

\* The values of the profile's symbols _text and _etext.
text == 1
etext == 2

\* The op_members a plugin passes.
op_members == <<"read", "write">>

\* The module lists get_modules can give: (name, start, end) triples.
ModuleLists == { <<>>,
                 << <<"mod_a", 2, 3>> >>,
                 << <<"mod_a", 2, 3>>, <<"mod_b", 3, 4>> >> }

\* address_in_module: the name of the first module holding the address, or None.
RECURSIVE address_in_module_from(_, _, _)
address_in_module_from(module_list, address, i) ==
    IF i > Len(module_list) THEN NoName
    ELSE IF module_list[i][2] <= address /\ address < module_list[i][3]
         THEN module_list[i][1]
         ELSE address_in_module_from(module_list, address, i + 1)

address_in_module(module_list, address) ==
    address_in_module_from(module_list, address, 1)

\* Python's truth value of what address_in_module returns.
Truthy(name) == name # NoName /\ name # ""

\* An is_known_address whose test of the kernel text leaves out its first byte.
is_known_address_strict_text(addr, mods) ==
    IF (text < addr /\ addr < etext) \/ Truthy(address_in_module(mods, addr))
    THEN 1 ELSE 0

\* is_known_address
is_known_address(addr, mods) ==
    IF (text <= addr /\ addr < etext) \/ Truthy(address_in_module(mods, addr))
    THEN 1 ELSE 0

\* d[k] = v, as a Python dict assignment
DictSet(d, k, v) ==
    [x \in DOMAIN d \cup {k} |-> IF x = k THEN v ELSE d[x]]

OpsIdle ==
    /\ known_addrs = <<>>
    /\ fops = <<>>
    /\ modules = <<>>
    /\ check_i = 0
    /\ yielded = <<>>
    /\ calls = 0
    /\ scans = <<>>
    /\ scan_modules = <<>>
    /\ answers = <<>>
    /\ ops_pc = "off"

\* A fresh invocation: the plugin starts with an empty known_addrs.
OpsInit ==
    /\ known_addrs = <<>>
    /\ fops = <<>>
    /\ modules = <<>>
    /\ check_i = 0
    /\ yielded = <<>>
    /\ calls = 0
    /\ scans = [a \in Addrs |-> 0]
    /\ scan_modules = <<>>
    /\ answers = [a \in Addrs |-> {}]
    /\ ops_pc = "idle"

\* A call verify_ops(obj_ref, fops, op_members, modules) begins.
OpsCall ==
    /\ ops_pc = "idle"
    /\ calls < MaxCalls
    /\ \E f \in [{op_members[i] : i \in 1 .. Len(op_members)} -> Addrs],
          m \in ModuleLists :
          /\ fops' = f
          /\ modules' = m
    /\ check_i' = 1
    /\ yielded' = <<>>
    /\ calls' = calls + 1
    /\ ops_pc' = "loop"
    /\ UNCHANGED <<known_addrs, scans, scan_modules, answers>>
    /\ UNCHANGED notOps

\* lines 452-455: the member's pointer is null
OpsCheckNull ==
    /\ ops_pc = "loop"
    /\ check_i <= Len(op_members)
    /\ fops[op_members[check_i]] = 0
    /\ check_i' = check_i + 1
    /\ UNCHANGED <<known_addrs, fops, modules, yielded, calls, scans,
                   scan_modules, answers, ops_pc>>
    /\ UNCHANGED notOps

\* lines 452-458, 463-464: the address is in known_addrs
OpsCheckCached ==
    /\ ops_pc = "loop"
    /\ check_i <= Len(op_members)
    /\ LET check == op_members[check_i]
           addr == fops[check]
       IN  /\ addr # 0
           /\ addr \in DOMAIN known_addrs
           /\ LET known == known_addrs[addr]
              IN  /\ answers' = [answers EXCEPT ![addr] = @ \cup {known}]
                  /\ yielded' = IF known = 0
                                THEN Append(yielded, <<check, addr>>)
                                ELSE yielded
    /\ check_i' = check_i + 1
    /\ UNCHANGED <<known_addrs, fops, modules, calls, scans, scan_modules, ops_pc>>
    /\ UNCHANGED notOps

\* A verify_ops that classifies but does not store the classification.
OpsCheckScanNoStore ==
    /\ ops_pc = "loop"
    /\ check_i <= Len(op_members)
    /\ LET check == op_members[check_i]
           addr == fops[check]
       IN  /\ addr # 0
           /\ addr \notin DOMAIN known_addrs
           /\ LET known == is_known_address(addr, modules)
              IN  /\ scans' = [scans EXCEPT ![addr] = @ + 1]
                  /\ scan_modules' = DictSet(scan_modules, addr, modules)
                  /\ answers' = [answers EXCEPT ![addr] = @ \cup {known}]
                  /\ yielded' = IF known = 0
                                THEN Append(yielded, <<check, addr>>)
                                ELSE yielded
    /\ check_i' = check_i + 1
    /\ UNCHANGED <<known_addrs, fops, modules, calls, ops_pc>>
    /\ UNCHANGED notOps

\* lines 452-457, 459-464: the address is not in known_addrs
OpsCheckScan ==
    /\ ops_pc = "loop"
    /\ check_i <= Len(op_members)
    /\ LET check == op_members[check_i]
           addr == fops[check]
       IN  /\ addr # 0
           /\ addr \notin DOMAIN known_addrs
           /\ LET known == is_known_address(addr, modules)
              IN  /\ known_addrs' = DictSet(known_addrs, addr, known)
                  /\ scans' = [scans EXCEPT ![addr] = @ + 1]
                  /\ scan_modules' = DictSet(scan_modules, addr, modules)
                  /\ answers' = [answers EXCEPT ![addr] = @ \cup {known}]
                  /\ yielded' = IF known = 0
                                THEN Append(yielded, <<check, addr>>)
                                ELSE yielded
    /\ check_i' = check_i + 1
    /\ UNCHANGED <<fops, modules, calls, ops_pc>>
    /\ UNCHANGED notOps

\* line 452: op_members is exhausted; the generator ends
OpsEnd ==
    /\ ops_pc = "loop"
    /\ check_i > Len(op_members)
    /\ ops_pc' = "idle"
    /\ UNCHANGED <<known_addrs, fops, modules, check_i, yielded, calls, scans,
                   scan_modules, answers>>
    /\ UNCHANGED notOps

OpsNext == OpsCall \/ OpsCheckNull \/ OpsCheckCached \/ OpsCheckScan \/ OpsEnd

----------------------------------------------------------------------------
(***************************************************************************)
(* online_cpus, walk_per_cpu_var, get_per_cpu_symbol (common.py 72-140)    *)
(***************************************************************************)

\* line 115: online_cpus looks at bits 0 .. 7 of the bitmap word
NrCpuBits == 8

\* The per-CPU variable a plugin walks.
per_var == "runqueues"

\* The addresses of the symbols a profile may hold.
SymbolTable ==
    [n \in {"cpu_online_bits", "cpu_present_map", "__per_cpu_offset",
            per_var, "per_cpu__" \o per_var} |->
        CASE n = "cpu_online_bits"  -> 4096
          [] n = "cpu_present_map"  -> 4104
          [] n = "__per_cpu_offset" -> 8192
          [] n = per_var            -> 12288
          [] OTHER                  -> 16384]

\* The profiles of the model: __per_cpu_offset resolves, the others may not.
SymbolSets ==
    {{"__per_cpu_offset"} \cup S :
        S \in SUBSET {"cpu_online_bits", "cpu_present_map",
                      per_var, "per_cpu__" \o per_var}}

\* get_profile_symbol: the symbol's address, or None
get_profile_symbol(sym_name) ==
    IF sym_name \in cpu_symbols THEN SymbolTable[sym_name] ELSE None

\* get_per_cpu_symbol: the name as given, else with the per_cpu__ prefix
get_per_cpu_symbol(sym_name) ==
    LET ret == get_profile_symbol(sym_name)
    IN  IF ret = None THEN get_profile_symbol("per_cpu__" \o sym_name) ELSE ret

\* The __per_cpu_offset array of the image.
per_offsets(i) == (i + 1) * 65536

\* bmap & (1 << i)
BitSet(word, i) == (word \div (2 ^ i)) % 2 = 1

\* lines 114-117: the bits set among 0 .. n-1, ascending
RECURSIVE OnlineList(_, _)
OnlineList(word, n) ==
    IF n = 0 THEN <<>>
    ELSE IF BitSet(word, n - 1)
         THEN Append(OnlineList(word, n - 1), n - 1)
         ELSE OnlineList(word, n - 1)

\* line 126: max_cpu = cpus[-1] + 1
max_cpu == cpus[Len(cpus)] + 1

CpuIdle ==
    /\ bmap = 0 /\ cpu_symbols = {} /\ cpus = <<>> /\ cpu_i = 0
    /\ cpu_yielded = <<>> /\ cpu_pc = "idle"

CpuInit ==
    /\ bmap \in 0 .. (2 ^ NrCpuBits - 1)
    /\ cpu_symbols \in SymbolSets
    /\ cpus = <<>>
    /\ cpu_i = 0
    /\ cpu_yielded = <<>>
    /\ cpu_pc = "online_cpus"

\* lines 101-119: online_cpus with one of the two bitmap symbols resolved.
\* Both name the word that holds bmap.
CpuOnline ==
    /\ cpu_pc = "online_cpus"
    /\ \/ get_profile_symbol("cpu_online_bits") # None
       \/ get_profile_symbol("cpu_present_map") # None
    /\ cpus' = OnlineList(bmap, NrCpuBits)
    /\ cpu_pc' = "max_cpu"
    /\ UNCHANGED <<bmap, cpu_symbols, cpu_i, cpu_yielded>>
    /\ UNCHANGED notCpu

\* lines 111-112: neither symbol resolves
CpuOnlineRaise ==
    /\ cpu_pc = "online_cpus"
    /\ get_profile_symbol("cpu_online_bits") = None
    /\ get_profile_symbol("cpu_present_map") = None
    /\ cpu_pc' = "AttributeError"
    /\ UNCHANGED <<bmap, cpu_symbols, cpus, cpu_i, cpu_yielded>>
    /\ UNCHANGED notCpu

\* lines 126-131: max_cpu, the offsets array, the loop starts at 0
CpuMax ==
    /\ cpu_pc = "max_cpu"
    /\ cpus # <<>>
    /\ cpu_i' = 0
    /\ cpu_pc' = "loop"
    /\ UNCHANGED <<bmap, cpu_symbols, cpus, cpu_yielded>>
    /\ UNCHANGED notCpu

\* line 126 on an empty list: cpus[-1] raises
CpuMaxRaise ==
    /\ cpu_pc = "max_cpu"
    /\ cpus = <<>>
    /\ cpu_pc' = "IndexError"
    /\ UNCHANGED <<bmap, cpu_symbols, cpus, cpu_i, cpu_yielded>>
    /\ UNCHANGED notCpu

\* lines 131-140: one pass of `for i in range(max_cpu)`
CpuYield ==
    /\ cpu_pc = "loop"
    /\ cpu_i < max_cpu
    /\ LET offset == per_offsets(cpu_i)
           cpu_var == get_per_cpu_symbol(per_var)
       IN  /\ cpu_var # None
           /\ cpu_yielded' = Append(cpu_yielded, <<cpu_i, cpu_var + offset>>)
    /\ cpu_i' = cpu_i + 1
    /\ UNCHANGED <<bmap, cpu_symbols, cpus, cpu_pc>>
    /\ UNCHANGED notCpu

\* line 137 when neither spelling of the variable resolves: None + offset raises
CpuYieldRaise ==
    /\ cpu_pc = "loop"
    /\ cpu_i < max_cpu
    /\ get_per_cpu_symbol(per_var) = None
    /\ cpu_pc' = "TypeError"
    /\ UNCHANGED <<bmap, cpu_symbols, cpus, cpu_i, cpu_yielded>>
    /\ UNCHANGED notCpu

\* line 131: the range is exhausted; the generator ends
CpuEnd ==
    /\ cpu_pc = "loop"
    /\ ~(cpu_i < max_cpu)
    /\ cpu_pc' = "done"
    /\ UNCHANGED <<bmap, cpu_symbols, cpus, cpu_i, cpu_yielded>>
    /\ UNCHANGED notCpu

CpuNext ==
    \/ CpuOnline \/ CpuOnlineRaise \/ CpuMax \/ CpuMaxRaise
    \/ CpuYield \/ CpuYieldRaise \/ CpuEnd

----------------------------------------------------------------------------
(***************************************************************************)
(* The page tree of an inode in the image, and radix_tree_lookup_slot      *)
(* (common.py 307-360)                                                     *)
(***************************************************************************)

\* lines 317-319
RADIX_TREE_MAP_SHIFT == 6
RADIX_TREE_MAP_SIZE == 2 ^ RADIX_TREE_MAP_SHIFT
RADIX_TREE_MAP_MASK == RADIX_TREE_MAP_SIZE - 1

\* Bound: the page trees of the image have height 0 .. MaxHeight.
MaxHeight == 2

\* The page indices the image may hold in a page cache.
PagePool == {0, 1, 64, 65}

\* The indices looked up.
IndexPool == {0, 1, 63, 64, 65, 4096}

\* The number of indices a tree of height h spans.
Capacity(h) == RADIX_TREE_MAP_SIZE ^ h

\* The pointer the image holds at mem_map, and the size of struct page.
mem_map_ptr == 4096
PageStructSize == 32

\* Where the kernel's radix_tree_node objects lie in the image.
NodeBase == 8388608

\* The page frame that holds the page cached at index p, and its struct page.
PageFrame(p) == p + 1
PagePtr(p) == mem_map_ptr + PageFrame(p) * PageStructSize

\* The radix_tree_node at level h (1: its slots hold pages) whose slots span
\* the indices q * 64^h .. (q + 1) * 64^h - 1.
NodeAddr(h, q) == NodeBase + 2 * (q * (MaxHeight + 2) + h)
NodeLevel(addr) == ((addr - NodeBase) \div 2) % (MaxHeight + 2)
NodePrefix(addr) == ((addr - NodeBase) \div 2) \div (MaxHeight + 2)

\* root.rnode: the item itself in a tree of height 0, else the root's node,
\* tagged indirect in the low bit.
rnode ==
    IF tree_h = 0
    THEN IF 0 \in pages THEN PagePtr(0) ELSE 0
    ELSE NodeAddr(tree_h, 0) + 1

\* node.height as stored in the image
NodeHeight(addr) ==
    IF addr = NodeAddr(tree_h, 0) THEN stored_h ELSE NodeLevel(addr)

\* node.slots[i] as stored in the image: at level 1 the page cached at that
\* index, above it the node of the subtree if a cached page lies in it; null
\* otherwise.
NodeSlot(addr, i) ==
    LET h == NodeLevel(addr)
        c == NodePrefix(addr) * RADIX_TREE_MAP_SIZE + i
    IN  IF h = 1
        THEN IF c \in pages THEN PagePtr(c) ELSE 0
        ELSE IF \E p \in pages : p \div Capacity(h - 1) = c
             THEN NodeAddr(h - 1, c)
             ELSE 0

\* The trees of the image: a height, a population that fits it, and the height
\* field of the root's node, which is the height or, damaged, 0.
TreeInit ==
    /\ tree_h \in 0 .. MaxHeight
    /\ pages \in SUBSET {p \in PagePool : p < Capacity(tree_h)}
    /\ stored_h \in IF tree_h = 0 THEN {0} ELSE {tree_h, 0}

TreeIdle ==
    /\ tree_h = 0 /\ stored_h = 0 /\ pages = {}

\* radix_tree_is_indirect_ptr: ptr & 1
radix_tree_is_indirect_ptr(ptr) == ptr % 2

\* radix_tree_indirect_to_ptr: the node at ptr & ~1
radix_tree_indirect_to_ptr(ptr) == ptr - (ptr % 2)

\* The locals of radix_tree_lookup_slot after lines 336-342.
LookupEnter(index) ==
    LET node == radix_tree_indirect_to_ptr(rnode)
        height == NodeHeight(node)
    IN  [index |-> index, node |-> node, height |-> height,
         shift |-> (height - 1) * RADIX_TREE_MAP_SHIFT,
         slot |-> -1, reads |-> <<>>, pc |-> "loop"]

\* lines 344-355: one pass of `while 1`.  Python's >> raises ValueError on a
\* negative shift count; index & MASK of a non-negative index is index mod 64.
LookupPass(l) ==
    IF l.shift < 0
    THEN [l EXCEPT !.pc = "ValueError"]
    ELSE LET idx == (l.index \div (2 ^ l.shift)) % (RADIX_TREE_MAP_MASK + 1)
             slot == NodeSlot(l.node, idx)
         IN  [l EXCEPT !.slot = slot,
                       !.reads = Append(@, <<l.node, idx>>),
                       !.shift = @ - RADIX_TREE_MAP_SHIFT,
                       !.height = @ - 1,
                       !.pc = IF l.height - 1 <= 0 THEN "after" ELSE "loop"]

\* lines 344-360: the loop run to its end, then the result (or "ValueError")
RECURSIVE LookupRun(_)
LookupRun(l) ==
    IF l.pc = "loop" THEN LookupRun(LookupPass(l))
    ELSE IF l.pc = "ValueError" THEN [l EXCEPT !.slot = None]
    ELSE IF l.slot = -1 THEN [l EXCEPT !.slot = None, !.pc = "done"]
    ELSE [l EXCEPT !.pc = "done"]

\* radix_tree_lookup_slot(root, index) on the page tree of the image: a record
\* with pc "done" and the value returned in slot, or with pc "ValueError".
radix_tree_lookup_slot(index) ==
    IF radix_tree_is_indirect_ptr(rnode) = 0
    THEN [index |-> index, node |-> rnode, height |-> 0, shift |-> 0,
          slot |-> IF index > 0 THEN None ELSE rnode,
          reads |-> <<>>, pc |-> "done"]
    ELSE LookupRun(LookupEnter(index))

RtIdle ==
    /\ rt_index = 0 /\ rt_node = 0 /\ rt_height = 0 /\ rt_shift = 0 /\ rt_slot = 0
    /\ rt_reads = <<>> /\ rt_result = None /\ rt_pc = "idle"

\* A call radix_tree_lookup_slot(self, root, index); line 321: node = root.rnode
RtInit ==
    /\ rt_index \in IndexPool
    /\ rt_node = rnode
    /\ rt_height = 0
    /\ rt_shift = 0
    /\ rt_slot = 0
    /\ rt_reads = <<>>
    /\ rt_result = None
    /\ rt_pc = "start"

\* The locals of the running call as a record, and back.
RtLocals ==
    [index |-> rt_index, node |-> rt_node, height |-> rt_height,
     shift |-> rt_shift, slot |-> rt_slot, reads |-> rt_reads, pc |-> rt_pc]

RtAssign(l) ==
    /\ rt_node' = l.node
    /\ rt_height' = l.height
    /\ rt_shift' = l.shift
    /\ rt_slot' = l.slot
    /\ rt_reads' = l.reads
    /\ rt_pc' = l.pc

\* The direct case without the test of the index, lines 325-327.
RtDirectAnyIndex ==
    /\ rt_pc = "start"
    /\ radix_tree_is_indirect_ptr(rt_node) = 0
    /\ rt_result' = rt_node
    /\ rt_pc' = "done"
    /\ UNCHANGED <<rt_index, rt_node, rt_height, rt_shift, rt_slot, rt_reads>>
    /\ UNCHANGED <<notRt, treeVars>>

\* lines 323-334: the root's pointer is not tagged indirect
RtDirect ==
    /\ rt_pc = "start"
    /\ radix_tree_is_indirect_ptr(rt_node) = 0
    /\ rt_result' = IF rt_index > 0 THEN None ELSE rt_node
    /\ rt_pc' = "done"
    /\ UNCHANGED <<rt_index, rt_node, rt_height, rt_shift, rt_slot, rt_reads>>
    /\ UNCHANGED <<notRt, treeVars>>

\* lines 336-342: the root's node, its height, the first shift, slot = -1
RtEnter ==
    /\ rt_pc = "start"
    /\ radix_tree_is_indirect_ptr(rt_node) # 0
    /\ RtAssign(LookupEnter(rt_index))
    /\ UNCHANGED <<rt_index, rt_result>>
    /\ UNCHANGED <<notRt, treeVars>>

\* lines 344-355: one pass of the loop that reads a slot
RtPass ==
    /\ rt_pc = "loop"
    /\ LookupPass(RtLocals).pc # "ValueError"
    /\ RtAssign(LookupPass(RtLocals))
    /\ UNCHANGED <<rt_index, rt_result>>
    /\ UNCHANGED <<notRt, treeVars>>

\* line 346 with a negative shift: index >> shift raises ValueError
RtPassRaise ==
    /\ rt_pc = "loop"
    /\ LookupPass(RtLocals).pc = "ValueError"
    /\ rt_pc' = "ValueError"
    /\ UNCHANGED <<rt_index, rt_node, rt_height, rt_shift, rt_slot, rt_reads,
                   rt_result>>
    /\ UNCHANGED <<notRt, treeVars>>

\* lines 357-360: None if no slot was read, else the slot read last
RtReturn ==
    /\ rt_pc = "after"
    /\ rt_result' = LookupRun(RtLocals).slot
    /\ rt_pc' = "done"
    /\ UNCHANGED <<rt_index, rt_node, rt_height, rt_shift, rt_slot, rt_reads>>
    /\ UNCHANGED <<notRt, treeVars>>

RtNext == RtDirect \/ RtEnter \/ RtPass \/ RtPassRaise \/ RtReturn

----------------------------------------------------------------------------
(***************************************************************************)
(* phys_addr_of_page, find_get_page, get_page_contents, get_file_contents  *)
(* (common.py 283-305, 368-421)                                            *)
(***************************************************************************)

\* lines 389, 391, 402-407: the page size
PAGE_SIZE == 4096

\* line 303
PAGE_SHIFT == 12

\* The size of the physical capture: reads must lie below it.
PhysSize == 536870912

\* The i_size values of the image: whole pages, one byte more, one byte less
\* than one page more.
FilePageCounts == {0, 1, 2, 64, 65}
FileSizes == {n * PAGE_SIZE + r : n \in FilePageCounts, r \in {0, 1, PAGE_SIZE - 1}}

\* phys_addr_of_page on a FLATMEM kernel: mem_map resolves
phys_addr_of_page(page) ==
    ((page - mem_map_ptr) \div PageStructSize) * (2 ^ PAGE_SHIFT)

\* A byte string is kept as the sequence of the runs it was put together
\* from: len bytes of physical memory from off on, or len zero bytes.
PhysRun(off, len) == [src |-> "phys", off |-> off, len |-> len]
ZeroRun(len) == [src |-> "zero", off |-> 0, len |-> len]

\* len(data)
RECURSIVE ByteLen(_)
ByteLen(str) ==
    IF str = <<>> THEN 0 ELSE Head(str).len + ByteLen(Tail(str))

\* data[:n] for n >= 0
RECURSIVE Prefix(_, _)
Prefix(str, n) ==
    IF n <= 0 \/ str = <<>> THEN <<>>
    ELSE IF Head(str).len <= n
         THEN <<Head(str)>> \o Prefix(Tail(str), n - Head(str).len)
         ELSE <<[Head(str) EXCEPT !.len = n]>>

\* data[:n], n of either sign, as Python slices
SliceTo(str, n) ==
    IF n >= 0 THEN Prefix(str, n)
    ELSE Prefix(str, IF ByteLen(str) + n > 0 THEN ByteLen(str) + n ELSE 0)

\* phys_as.read(pa_phys_offset, 4096): the bytes, or "OutOfRange"
PhysReadable(phys_offset, len) ==
    phys_offset >= 0 /\ phys_offset + len <= PhysSize

\* find_get_page
find_get_page(offset) == radix_tree_lookup_slot(offset)

\* get_page_contents(self, inode, idx): the 4096 bytes it returns, as one run,
\* or the exception that leaves it
Returns(run) == [raised |-> "", data |-> run]
Raises(exception) == [raised |-> exception, data |-> ZeroRun(0)]

get_page_contents(idx) ==
    LET l == find_get_page(idx)
        page == l.slot
    IN  IF l.pc = "ValueError" THEN Raises("ValueError")
        ELSE IF page # None /\ page # 0
        THEN IF PhysReadable(phys_addr_of_page(page), PAGE_SIZE)
             THEN Returns(PhysRun(phys_addr_of_page(page), PAGE_SIZE))
             ELSE Raises("OutOfRange")
        ELSE Returns(ZeroRun(PAGE_SIZE))

FcIdle ==
    /\ i_size = 0 /\ fc_extra = 0 /\ fc_idxs = 0 /\ fc_idx = 0 /\ data = <<>>
    /\ fc_reads = <<>> /\ fc_pc = "idle"

\* A call get_file_contents(self, inode)
FcInit ==
    /\ i_size \in FileSizes
    /\ fc_extra = 0
    /\ fc_idxs = 0
    /\ fc_idx = 0
    /\ data = <<>>
    /\ fc_reads = <<>>
    /\ fc_pc = "start"

\* lines 399-410: extra, idxs, and the range of the loop
FcStart ==
    /\ fc_pc = "start"
    /\ data' = <<>>
    /\ LET extra == i_size % PAGE_SIZE
           idxs == i_size \div PAGE_SIZE
       IN  IF extra # 0
           THEN /\ fc_extra' = PAGE_SIZE - extra
                /\ fc_idxs' = idxs + 1
           ELSE /\ fc_extra' = extra
                /\ fc_idxs' = idxs
    /\ fc_idx' = 0
    /\ fc_pc' = "loop"
    /\ UNCHANGED <<i_size, fc_reads>>
    /\ UNCHANGED <<notFc, treeVars>>

\* lines 410-412: one pass of `for idx in range(0, idxs)`
FcPage ==
    /\ fc_pc = "loop"
    /\ fc_idx < fc_idxs
    /\ get_page_contents(fc_idx).raised = ""
    /\ data' = Append(data, get_page_contents(fc_idx).data)
    /\ fc_reads' = Append(fc_reads, fc_idx)
    /\ fc_idx' = fc_idx + 1
    /\ UNCHANGED <<i_size, fc_extra, fc_idxs, fc_pc>>
    /\ UNCHANGED <<notFc, treeVars>>

\* line 412 when get_page_contents raises: the exception leaves the routine
FcPageRaise ==
    /\ fc_pc = "loop"
    /\ fc_idx < fc_idxs
    /\ get_page_contents(fc_idx).raised # ""
    /\ fc_reads' = Append(fc_reads, fc_idx)
    /\ fc_pc' = get_page_contents(fc_idx).raised
    /\ UNCHANGED <<i_size, fc_extra, fc_idxs, fc_idx, data>>
    /\ UNCHANGED <<notFc, treeVars>>

\* A get_file_contents that returns the last page whole.
FcReturnUntrimmed ==
    /\ fc_pc = "loop"
    /\ ~(fc_idx < fc_idxs)
    /\ fc_pc' = "done"
    /\ UNCHANGED <<i_size, fc_extra, fc_idxs, fc_idx, data, fc_reads>>
    /\ UNCHANGED <<notFc, treeVars>>

\* lines 416-421: the range is exhausted; chop the extra of the last page
FcReturn ==
    /\ fc_pc = "loop"
    /\ ~(fc_idx < fc_idxs)
    /\ IF fc_extra # 0
       THEN /\ fc_extra' = fc_extra * (-1)
            /\ data' = SliceTo(data, fc_extra * (-1))
       ELSE UNCHANGED <<fc_extra, data>>
    /\ fc_pc' = "done"
    /\ UNCHANGED <<i_size, fc_idxs, fc_idx, fc_reads>>
    /\ UNCHANGED <<notFc, treeVars>>

FcNext == FcStart \/ FcPage \/ FcPageRaise \/ FcReturn

----------------------------------------------------------------------------
(***************************************************************************)
(* do_get_path (common.py 215-255)                                         *)
(*                                                                         *)
(* Strings are sequences of one-character strings.                         *)
(***************************************************************************)

\* Bound: the dentries of the image are 1 .. NDentries; 0 is a pointer that
\* is not valid.
NDentries == 3

Dentries == 1 .. NDentries

\* The mounts of the image.
Mounts == {1, 2}

\* The names of the dentries: the first is a filesystem root.
NameOf(d) ==
    CASE d = 1 -> <<"/">>
      [] d = 2 -> <<"u", "s", "r">>
      [] d = 3 -> <<"l", "i", "b">>
      [] OTHER -> <<"x">>

\* The names dentry 2 can carry: a directory, the names sockfs, pipefs and
\* inotify give their dentries, and a bracket that was never closed.
SecondNames ==
    { <<"u", "s", "r">>,
      <<"s", "o", "c", "k", "e", "t", ":">>,
      <<"s", "o", "c", "k", "e", "t", ":", "[", "1", "2">>,
      <<"p", "i", "p", "e", ":", "[", "7", "]">>,
      <<"i", "n", "o", "t", "i", "f", "y">> }

\* The d_name.name fields of the image.
NameMaps ==
    {[d \in Dentries |-> IF d = 2 THEN second ELSE NameOf(d)] :
        second \in SecondNames}

\* The inode number of a dentry's inode.
InoOf(d) == 999 + d

\* The d_parent links of the image: each dentry's parent is its predecessor,
\* itself or its successor (cyclically), so that chains, self-parents and
\* cycles of every length occur.
ParentMaps ==
    {f \in [Dentries -> Dentries] :
        \A d \in Dentries :
            f[d] \in {d, (d % NDentries) + 1, ((d + NDentries - 2) % NDentries) + 1}}

\* Which names are readable: all, or all but one.
ValidMaps ==
    {[d \in Dentries |-> d # bad] : bad \in {0, 2}}

\* The mounts: mount 1 is mounted on dentry 1 and has dentry 1 as its root;
\* mount 2 has any root and is mounted on dentry 1 or 2; the mnt_parent
\* links make mount 1 the global root, or both their own parents, or, damaged,
\* a cycle.
MountParents == {<<1, 1>>, <<1, 2>>, <<2, 1>>}
MountRoots == {<<1, d>> : d \in Dentries}
MountPoints == {<<1, 1>>, <<1, 2>>}

\* s.strip('/')
RECURSIVE LStrip(_)
LStrip(str) ==
    IF str # <<>> /\ Head(str) = "/" THEN LStrip(Tail(str)) ELSE str

RECURSIVE RStrip(_)
RStrip(str) ==
    IF str # <<>> /\ str[Len(str)] = "/"
    THEN RStrip(SubSeq(str, 1, Len(str) - 1))
    ELSE str

Strip(str) == RStrip(LStrip(str))

\* ret_path.reverse()
Reverse(list) == [i \in 1 .. Len(list) |-> list[Len(list) + 1 - i]]

\* '/'.join(list)
RECURSIVE Join(_)
Join(list) ==
    IF list = <<>> THEN <<>>
    ELSE IF Len(list) = 1 THEN list[1]
    ELSE list[1] \o <<"/">> \o Join(Tail(list))

\* [str(p) for p in ret_path if p != ""]
NonEmpty(list) == SelectSeq(list, LAMBDA part : part # <<>>)

\* s.startswith(prefix)
StartsWith(str, prefix) ==
    Len(str) >= Len(prefix) /\ SubSeq(str, 1, Len(prefix)) = prefix

\* "{0}".format(n) for n >= 0
Digit(n) == <<"0", "1", "2", "3", "4", "5", "6", "7", "8", "9">>[n + 1]

RECURSIVE Decimal(_)
Decimal(n) ==
    IF n < 10 THEN <<Digit(n)>> ELSE Decimal(n \div 10) \o <<Digit(n % 10)>>

\* The formatting without the replace("/", "") of line 251.
FormatPathKeepsSlashes(path, i_ino) ==
    LET joined == Join(NonEmpty(path))
    IN  IF \/ StartsWith(joined, <<"s", "o", "c", "k", "e", "t", ":">>)
           \/ StartsWith(joined, <<"p", "i", "p", "e", ":">>)
        THEN IF \A i \in 1 .. Len(joined) : joined[i] # "]"
             THEN SubSeq(joined, 1, Len(joined) - 1)
                     \o <<":", "[">> \o Decimal(i_ino) \o <<"]">>
             ELSE joined
        ELSE IF joined # <<"i", "n", "o", "t", "i", "f", "y">>
             THEN <<"/">> \o joined
             ELSE joined

\* lines 244-255: the string returned for the reversed, non-empty ret_path
FormatPath(path, i_ino) ==
    LET joined == Join(NonEmpty(path))
    IN  IF \/ StartsWith(joined, <<"s", "o", "c", "k", "e", "t", ":">>)
           \/ StartsWith(joined, <<"p", "i", "p", "e", ":">>)
        THEN IF \A i \in 1 .. Len(joined) : joined[i] # "]"
             THEN SubSeq(joined, 1, Len(joined) - 1)
                     \o <<":", "[">> \o Decimal(i_ino) \o <<"]">>
             ELSE SelectSeq(joined, LAMBDA c : c # "/")
        ELSE IF joined # <<"i", "n", "o", "t", "i", "f", "y">>
             THEN <<"/">> \o joined
             ELSE joined

\* The condition of the walk loop, line 223
WalkOn ==
    /\ dentry # rdentry \/ vfsmnt # rmnt
    /\ d_name_valid[dentry]

\* The condition of line 229
AtMountRoot ==
    dentry = mnt_root[vfsmnt] \/ dentry = d_parent[dentry]

\* The passes of the walk loop that the model follows: one more than there
\* are (dentry, mount) pairs, so that a walk that repeats a pair shows.
MaxWalk == NDentries * Cardinality(Mounts) + 1

PathIdle ==
    /\ d_parent = <<>> /\ d_name = <<>> /\ d_name_valid = <<>> /\ mnt_root = <<>>
    /\ mnt_parent = <<>> /\ mnt_mountpoint = <<>> /\ rdentry = 0 /\ rmnt = 0
    /\ dentry = 0 /\ vfsmnt = 0 /\ inode = 0 /\ ret_path = <<>> /\ ret_val = <<>>
    /\ path_steps = 0 /\ path_pc = "idle"

\* A call do_get_path(rdentry, rmnt, dentry, vfsmnt); lines 216-218
PathInit ==
    /\ d_parent \in ParentMaps
    /\ d_name \in NameMaps
    /\ d_name_valid \in ValidMaps
    /\ mnt_root \in MountRoots
    /\ mnt_parent \in MountParents
    /\ mnt_mountpoint \in MountPoints
    /\ rdentry \in {0, 1}
    /\ rmnt = 1
    /\ dentry \in {0} \cup Dentries
    /\ vfsmnt \in Mounts
    /\ inode = InoOf(dentry)
    /\ ret_path = <<>>
    /\ ret_val = <<>>
    /\ path_steps = 0
    /\ path_pc = "start"

\* lines 220-221: the root or the start dentry is not valid
PathInvalid ==
    /\ path_pc = "start"
    /\ rdentry = 0 \/ dentry = 0
    /\ ret_val' = <<>>
    /\ path_pc' = "done"
    /\ UNCHANGED <<d_parent, d_name, d_name_valid, mnt_root, mnt_parent,
                   mnt_mountpoint, rdentry, rmnt, dentry, vfsmnt, inode,
                   ret_path, path_steps>>
    /\ UNCHANGED notPath

\* line 220 passed: the walk begins
PathEnter ==
    /\ path_pc = "start"
    /\ ~(rdentry = 0 \/ dentry = 0)
    /\ path_pc' = "walk"
    /\ UNCHANGED <<d_parent, d_name, d_name_valid, mnt_root, mnt_parent,
                   mnt_mountpoint, rdentry, rmnt, dentry, vfsmnt, inode,
                   ret_path, ret_val, path_steps>>
    /\ UNCHANGED notPath

\* A crossing that takes the mountpoint but stays on the mount.
PathCrossKeepsMount ==
    /\ path_pc = "walk"
    /\ path_steps <= MaxWalk
    /\ WalkOn
    /\ AtMountRoot
    /\ mnt_parent[vfsmnt] # vfsmnt
    /\ ret_path' = Append(ret_path, Strip(d_name[dentry]))
    /\ dentry' = mnt_mountpoint[vfsmnt]
    /\ path_steps' = path_steps + 1
    /\ UNCHANGED <<d_parent, d_name, d_name_valid, mnt_root, mnt_parent,
                   mnt_mountpoint, rdentry, rmnt, vfsmnt, inode, ret_val,
                   path_pc>>
    /\ UNCHANGED notPath

\* lines 223-234: a pass that crosses to the parent mount
PathCross ==
    /\ path_pc = "walk"
    /\ path_steps <= MaxWalk
    /\ WalkOn
    /\ AtMountRoot
    /\ mnt_parent[vfsmnt] # vfsmnt
    /\ ret_path' = Append(ret_path, Strip(d_name[dentry]))
    /\ dentry' = mnt_mountpoint[vfsmnt]
    /\ vfsmnt' = mnt_parent[vfsmnt]
    /\ path_steps' = path_steps + 1
    /\ UNCHANGED <<d_parent, d_name, d_name_valid, mnt_root, mnt_parent,
                   mnt_mountpoint, rdentry, rmnt, inode, ret_val, path_pc>>
    /\ UNCHANGED notPath

\* lines 223-231: a pass that stops at the root of the global root mount
PathBreak ==
    /\ path_pc = "walk"
    /\ path_steps <= MaxWalk
    /\ WalkOn
    /\ AtMountRoot
    /\ mnt_parent[vfsmnt] = vfsmnt
    /\ ret_path' = Append(ret_path, Strip(d_name[dentry]))
    /\ path_steps' = path_steps + 1
    /\ path_pc' = "format"
    /\ UNCHANGED <<d_parent, d_name, d_name_valid, mnt_root, mnt_parent,
                   mnt_mountpoint, rdentry, rmnt, dentry, vfsmnt, inode, ret_val>>
    /\ UNCHANGED notPath

\* lines 223-229, 236-237: a pass that moves to d_parent
PathUp ==
    /\ path_pc = "walk"
    /\ path_steps <= MaxWalk
    /\ WalkOn
    /\ ~AtMountRoot
    /\ ret_path' = Append(ret_path, Strip(d_name[dentry]))
    /\ dentry' = d_parent[dentry]
    /\ path_steps' = path_steps + 1
    /\ UNCHANGED <<d_parent, d_name, d_name_valid, mnt_root, mnt_parent,
                   mnt_mountpoint, rdentry, rmnt, vfsmnt, inode, ret_val, path_pc>>
    /\ UNCHANGED notPath

\* line 223: the loop condition is false
PathWalkEnd ==
    /\ path_pc = "walk"
    /\ ~WalkOn
    /\ path_pc' = "format"
    /\ UNCHANGED <<d_parent, d_name, d_name_valid, mnt_root, mnt_parent,
                   mnt_mountpoint, rdentry, rmnt, dentry, vfsmnt, inode,
                   ret_path, ret_val, path_steps>>
    /\ UNCHANGED notPath

\* The return of the joined segments as they are, lines 246-253 left out.
PathReturnUnformatted ==
    /\ path_pc = "format"
    /\ ret_path' = Reverse(ret_path)
    /\ ret_val' = Join(NonEmpty(Reverse(ret_path)))
    /\ path_pc' = "done"
    /\ UNCHANGED <<d_parent, d_name, d_name_valid, mnt_root, mnt_parent,
                   mnt_mountpoint, rdentry, rmnt, dentry, vfsmnt, inode,
                   path_steps>>
    /\ UNCHANGED notPath

\* lines 239-255: reverse, join, format, return
PathReturn ==
    /\ path_pc = "format"
    /\ ret_path' = Reverse(ret_path)
    /\ ret_val' = IF Reverse(ret_path) = <<>>
                  THEN <<>>
                  ELSE FormatPath(Reverse(ret_path), inode)
    /\ path_pc' = "done"
    /\ UNCHANGED <<d_parent, d_name, d_name_valid, mnt_root, mnt_parent,
                   mnt_mountpoint, rdentry, rmnt, dentry, vfsmnt, inode,
                   path_steps>>
    /\ UNCHANGED notPath

PathNext ==
    \/ PathInvalid \/ PathEnter \/ PathCross \/ PathBreak \/ PathUp
    \/ PathWalkEnd \/ PathReturn

----------------------------------------------------------------------------
(***************************************************************************)
(* phys_addr_of_page (common.py 283-305)                                   *)
(*                                                                         *)
(* Addresses have up to 48 bits.  An address is kept as <<hi, lo>>, which  *)
(* stands for hi * Word + lo with 0 <= lo < Word; differences of addresses *)
(* and physical offsets are plain integers.                                *)
(***************************************************************************)
\* The weight of the high part of an address: 2^24.
Word == 16777216

\* 0xea0000000000, line 296
VMEMMAP_START == <<15335424, 0>>

\* a + d, for an address a and an integer d
PtrAdd(a, d) == <<a[1] + ((a[2] + d) \div Word), (a[2] + d) % Word>>

\* a - b, for two addresses
PtrSub(a, b) == (a[1] - b[1]) * Word + (a[2] - b[2])

\* Python's None where the code holds the address of a symbol.
NoSymbol == <<>>

\* The value of a local that no statement has assigned.
Unbound == <<>>

\* The addresses the profile gives the two symbols when it has them.
MemMapSymbol == <<192, 5242880>>
MemSectionSymbol == <<192, 7340032>>

\* The pointers an image stores at mem_map: 0x1000, and 0xc0ffffe0, from
\* which the second struct page lies beyond the low part.
MemMapValues == {<<0, 4096>>, <<192, 16777184>>}

\* The sizes of struct page the profiles give.
PageStructSizes == {32, 56, 64}

\* The distances of the page argument from the start of the page array:
\* on and off the boundaries of the structs, and before the array.
PageDeltas == {-33, -1, 0, 1, 55, 56, 64, 65, 6400}

PaIdle ==
    /\ mem_map_addr = NoSymbol /\ mem_section_addr = NoSymbol /\ mem_map_value = <<>>
    /\ page_size_of = 0 /\ pa_page = <<>> /\ pa_mem_map_ptr = Unbound
    /\ pa_phys_offset = None /\ pa_model = "" /\ pa_pc = "idle"

\* A call phys_addr_of_page(page); lines 285-286.  The page lies near the
\* page array of the image: at mem_map's pointer when the profile has
\* mem_map, at the vmemmap otherwise.
PaInit ==
    /\ mem_map_addr \in {NoSymbol, MemMapSymbol}
    /\ mem_section_addr \in {NoSymbol, MemSectionSymbol}
    /\ mem_map_value \in MemMapValues
    /\ page_size_of \in PageStructSizes
    /\ pa_page \in {PtrAdd(IF mem_map_addr # NoSymbol THEN mem_map_value
                           ELSE VMEMMAP_START, d) : d \in PageDeltas}
    /\ pa_mem_map_ptr = Unbound
    /\ pa_phys_offset = None
    /\ pa_model = ""
    /\ pa_pc = "select"

\* lines 288-290: mem_map resolves, the base is the pointer stored there
PaFlat ==
    /\ pa_pc = "select"
    /\ mem_map_addr # NoSymbol
    /\ pa_mem_map_ptr' = mem_map_value
    /\ pa_model' = "flat"
    /\ pa_pc' = "compute"
    /\ UNCHANGED <<mem_map_addr, mem_section_addr, mem_map_value, page_size_of,
                   pa_page, pa_phys_offset>>
    /\ UNCHANGED notPa

\* A sparse branch that does not look at mem_map.
PaSparseWithoutElif ==
    /\ pa_pc = "select"
    /\ mem_section_addr # NoSymbol
    /\ pa_mem_map_ptr' = VMEMMAP_START
    /\ pa_model' = "sparse"
    /\ pa_pc' = "compute"
    /\ UNCHANGED <<mem_map_addr, mem_section_addr, mem_map_value, page_size_of,
                   pa_page, pa_phys_offset>>
    /\ UNCHANGED notPa

\* lines 292-296: mem_map does not resolve, mem_section does
PaSparse ==
    /\ pa_pc = "select"
    /\ mem_map_addr = NoSymbol
    /\ mem_section_addr # NoSymbol
    /\ pa_mem_map_ptr' = VMEMMAP_START
    /\ pa_model' = "sparse"
    /\ pa_pc' = "compute"
    /\ UNCHANGED <<mem_map_addr, mem_section_addr, mem_map_value, page_size_of,
                   pa_page, pa_phys_offset>>
    /\ UNCHANGED notPa

\* lines 298-299: neither resolves and debug.error ends the program
PaErrorExit ==
    /\ pa_pc = "select"
    /\ mem_map_addr = NoSymbol
    /\ mem_section_addr = NoSymbol
    /\ pa_model' = "none"
    /\ pa_pc' = "exit"
    /\ UNCHANGED <<mem_map_addr, mem_section_addr, mem_map_value, page_size_of,
                   pa_page, pa_mem_map_ptr, pa_phys_offset>>
    /\ UNCHANGED notPa

\* lines 298-301: neither resolves, debug.error returns, and line 301 reads
\* mem_map_ptr, which no branch assigned: UnboundLocalError
PaErrorUnbound ==
    /\ pa_pc = "select"
    /\ mem_map_addr = NoSymbol
    /\ mem_section_addr = NoSymbol
    /\ pa_mem_map_ptr = Unbound
    /\ pa_model' = "none"
    /\ pa_pc' = "UnboundLocalError"
    /\ UNCHANGED <<mem_map_addr, mem_section_addr, mem_map_value, page_size_of,
                   pa_page, pa_mem_map_ptr, pa_phys_offset>>
    /\ UNCHANGED notPa

\* The computation with a division that rounds towards zero.
PaReturnTruncating ==
    /\ pa_pc = "compute"
    /\ LET diff == PtrSub(pa_page, pa_mem_map_ptr)
       IN  pa_phys_offset' =
               (IF diff >= 0 THEN diff \div page_size_of
                ELSE -((-diff) \div page_size_of)) * (2 ^ PAGE_SHIFT)
    /\ pa_pc' = "done"
    /\ UNCHANGED <<mem_map_addr, mem_section_addr, mem_map_value, page_size_of,
                   pa_page, pa_mem_map_ptr, pa_model>>
    /\ UNCHANGED notPa

\* lines 301-305: the integer division of Python 2 rounds down
PaReturn ==
    /\ pa_pc = "compute"
    /\ pa_phys_offset' =
           (PtrSub(pa_page, pa_mem_map_ptr) \div page_size_of) * (2 ^ PAGE_SHIFT)
    /\ pa_pc' = "done"
    /\ UNCHANGED <<mem_map_addr, mem_section_addr, mem_map_value, page_size_of,
                   pa_page, pa_mem_map_ptr, pa_model>>
    /\ UNCHANGED notPa

PaNext == PaFlat \/ PaSparse \/ PaErrorExit \/ PaErrorUnbound \/ PaReturn

----------------------------------------------------------------------------
(***************************************************************************)
(* get_partial_path (common.py 468-483)                                    *)
(***************************************************************************)
GpIdle ==
    /\ gp_dentry = 0 /\ gp_path = <<>> /\ gp_steps = 0 /\ str_path = <<>>
    /\ gp_pc = "idle"

\* The passes of the loop that the model follows: one more than there are
\* dentries, so that a walk that comes to a dentry again shows.
MaxPartialWalk == NDentries + 1

\* The dentries of the image, for a run in which do_get_path is idle.
GpGraph ==
    /\ d_parent \in ParentMaps
    /\ d_name \in NameMaps
    /\ d_name_valid \in ValidMaps
    /\ mnt_root = <<>> /\ mnt_parent = <<>> /\ mnt_mountpoint = <<>>
    /\ rdentry = 0 /\ rmnt = 0 /\ dentry = 0 /\ vfsmnt = 0 /\ inode = 0
    /\ ret_path = <<>> /\ ret_val = <<>> /\ path_steps = 0 /\ path_pc = "idle"

\* A call get_partial_path(dentry); lines 469-471
GpInit ==
    /\ gp_dentry \in {0} \cup Dentries
    /\ gp_path = <<>>
    /\ gp_steps = 0
    /\ str_path = <<>>
    /\ gp_pc = "walk"

\* line 473
GpWalkOn == gp_dentry # 0 /\ gp_dentry # d_parent[gp_dentry]

\* lines 473-477: one pass of the loop
GpStep ==
    /\ gp_pc = "walk"
    /\ gp_steps <= MaxPartialWalk
    /\ GpWalkOn
    /\ gp_path' = IF d_name_valid[gp_dentry]
                  THEN Append(gp_path, d_name[gp_dentry])
                  ELSE gp_path
    /\ gp_dentry' = d_parent[gp_dentry]
    /\ gp_steps' = gp_steps + 1
    /\ UNCHANGED <<str_path, gp_pc>>
    /\ UNCHANGED <<notGp, pathVars>>

\* lines 473, 479-483: the loop condition is false; reverse, join, return
GpReturn ==
    /\ gp_pc = "walk"
    /\ ~GpWalkOn
    /\ gp_path' = Reverse(gp_path)
    /\ str_path' = Join(Reverse(gp_path))
    /\ gp_pc' = "done"
    /\ UNCHANGED <<gp_dentry, gp_steps>>
    /\ UNCHANGED <<notGp, pathVars>>

GpNext == GpStep \/ GpReturn

----------------------------------------------------------------------------
(***************************************************************************)
(* PSTree.render (pstree.py 53-98)                                         *)
(***************************************************************************)
RenderIdle ==
    /\ parent_of = <<>> /\ process_dict = {} /\ frames = <<>> /\ rows = <<>>
    /\ passes = <<>> /\ render_pc = "idle"

\* process_dict.keys() and .values(): the entries in the order of the dict,
\* which for the small integer keys of the model is ascending (an int
\* hashes to itself, and CPython 2 lists a dict in the order of its slots).
RECURSIVE InDictOrder(_)
InDictOrder(S) ==
    IF S = {} THEN <<>>
    ELSE LET least == CHOOSE x \in S : \A y \in S : x <= y
         IN  <<least>> \o InDictOrder(S \ {least})

\* _find_root(process_dict, pid) (pstree.py 35-43), with its local seen
RECURSIVE find_root_from(_, _, _)
find_root_from(dict, p, seen_pids) ==
    IF p \in dict /\ p \notin seen_pids
    THEN find_root_from(dict, parent_of[p], seen_pids \cup {p})
    ELSE p

find_root(dict, p) == find_root_from(dict, p, {})

\* A call draw_children(pad, pid) at its start: the snapshot values() gave
\* it, and the place of the loop in it.
Frame(p, dict) == [pid |-> p, tasks |-> InDictOrder(dict), i |-> 1]

\* The innermost running call and the task its loop is at.
TopFrame == frames[Len(frames)]
TopTask == TopFrame.tasks[TopFrame.i]

\* line 62: process_dict = self._make_process_dict()
RenderInit ==
    /\ parent_of \in PidDicts
    /\ process_dict = DOMAIN parent_of
    /\ frames = <<>>
    /\ rows = <<>>
    /\ passes = <<>>
    /\ render_pc = "loop"

\* lines 95-98: a pass of the outer loop up to the call of draw_children
RenderPass ==
    /\ render_pc = "loop"
    /\ process_dict # {}
    /\ LET keys == InDictOrder(process_dict)
           root == find_root(process_dict, keys[1])
       IN  frames' = <<Frame(root, process_dict)>>
    /\ passes' = Append(passes, Cardinality(process_dict))
    /\ render_pc' = "draw"
    /\ UNCHANGED <<parent_of, process_dict, rows>>
    /\ UNCHANGED notRender

\* lines 66-68: a task of the snapshot that was not inherited from pid
RenderSkip ==
    /\ render_pc = "draw"
    /\ TopFrame.i <= Len(TopFrame.tasks)
    /\ parent_of[TopTask] # TopFrame.pid
    /\ frames' = [frames EXCEPT ![Len(frames)].i = @ + 1]
    /\ UNCHANGED <<parent_of, process_dict, rows, passes, render_pc>>
    /\ UNCHANGED notRender

\* lines 66-93: a task inherited from pid: its row, the pop, the nested call
RenderRow ==
    /\ render_pc = "draw"
    /\ TopFrame.i <= Len(TopFrame.tasks)
    /\ parent_of[TopTask] = TopFrame.pid
    /\ rows' = Append(rows, TopTask)
    /\ process_dict' = process_dict \ {TopTask}
    /\ frames' = Append([frames EXCEPT ![Len(frames)].i = @ + 1],
                        Frame(TopTask, process_dict \ {TopTask}))
    /\ UNCHANGED <<parent_of, passes, render_pc>>
    /\ UNCHANGED notRender

\* line 66: the snapshot is exhausted, draw_children returns
RenderChildrenDone ==
    /\ render_pc = "draw"
    /\ TopFrame.i > Len(TopFrame.tasks)
    /\ frames' = SubSeq(frames, 1, Len(frames) - 1)
    /\ render_pc' = IF Len(frames) = 1 THEN "loop" ELSE "draw"
    /\ UNCHANGED <<parent_of, process_dict, rows, passes>>
    /\ UNCHANGED notRender

\* line 95: process_dict is empty, render returns
RenderReturn ==
    /\ render_pc = "loop"
    /\ process_dict = {}
    /\ render_pc' = "done"
    /\ UNCHANGED <<parent_of, process_dict, frames, rows, passes>>
    /\ UNCHANGED notRender

RenderNext ==
    \/ RenderPass \/ RenderSkip \/ RenderRow \/ RenderChildrenDone
    \/ RenderReturn

----------------------------------------------------------------------------
(***************************************************************************)
(* The specifications: one routine runs, the others are idle.              *)
(***************************************************************************)
\* The initial states in which the named routine is about to run.
InitOf(routine) ==
    /\ IF routine = "boot" THEN BootInit ELSE BootIdle
    /\ IF routine = "ps" THEN PsInit ELSE PsIdle
    /\ IF routine = "ops" THEN OpsInit ELSE OpsIdle
    /\ IF routine = "cpu" THEN CpuInit ELSE CpuIdle
    /\ IF routine \in {"rt", "fc"} THEN TreeInit ELSE TreeIdle
    /\ IF routine = "rt" THEN RtInit ELSE RtIdle
    /\ IF routine = "fc" THEN FcInit ELSE FcIdle
    /\ IF routine = "path" THEN PathInit
       ELSE IF routine = "gp" THEN GpGraph ELSE PathIdle
    /\ IF routine = "pa" THEN PaInit ELSE PaIdle
    /\ IF routine = "gp" THEN GpInit ELSE GpIdle
    /\ IF routine = "render" THEN RenderInit ELSE RenderIdle

SpecBoot == InitOf("boot") /\ [][BootNext]_vars

SpecPs == InitOf("ps") /\ [][PsNext]_vars

SpecOps == InitOf("ops") /\ [][OpsNext]_vars

SpecCpu == InitOf("cpu") /\ [][CpuNext]_vars

SpecRadix == InitOf("rt") /\ [][RtNext]_vars

SpecFile == InitOf("fc") /\ [][FcNext]_vars

SpecPath == InitOf("path") /\ [][PathNext]_vars

SpecPhys == InitOf("pa") /\ [][PaNext]_vars

SpecPartial == InitOf("gp") /\ [][GpNext]_vars

SpecRender == InitOf("render") /\ [][RenderNext]_vars

----------------------------------------------------------------------------
(***************************************************************************)
(* Properties                                                              *)
(***************************************************************************)

\* C9: get_boot_time's loops end with 0 <= nsecs < 1e9, the normalised pair
\* denotes the same instant as the negated sums (every second moved into
\* secs is 1e9 nanoseconds taken out of nsecs, which is
\* secs*1e9 + nsecs = -((wall.sec+sleep.sec)*1e9 + wall.nsec+sleep.nsec)
\* without the product that leaves the 32-bit range), the value returned is
\* the normalised secs, and wall = (-100, 0), sleep = (0, 0) gives 100.
C9_BootTimeNormalised ==
    boot_pc = "done" =>
        LET secs0 == -(wall.tv_sec + timeo.tv_sec)
            nsecs0 == -(wall.tv_nsec + timeo.tv_nsec)
        IN  /\ 0 <= nsecs /\ nsecs < nsecs_per
            /\ (secs - secs0) * nsecs_per = nsecs0 - nsecs
            /\ boot_time = secs
            /\ (/\ wall = [tv_sec |-> -100, tv_nsec |-> 0]
                /\ timeo = [tv_sec |-> 0, tv_nsec |-> 0])
               => (boot_time = 100 /\ nsecs = 0)

\* C9 witness: a run that had to borrow a second has returned.
C9_Witness ==
    /\ boot_pc = "done"
    /\ wall = [tv_sec |-> -100, tv_nsec |-> 1]
    /\ timeo = [tv_sec |-> 0, tv_nsec |-> 0]
    /\ boot_time = 99
    /\ nsecs = nsecs_per - 1

\* The pids a walk from the start has reached, in order: the ones it added to
\* seen, then the one it holds.
Reached == Append(visited, pid)

\* C10: _find_root terminates after visiting each pid at most once (no pid is
\* added to seen twice, every pass follows the inheritance link of the pid
\* before, and while it has not returned it can still move), and the pid it
\* returns is absent from the dictionary or is the first pid reached twice.
C10_FindRootTerminates ==
    /\ \A i, j \in 1 .. Len(visited) : i # j => visited[i] # visited[j]
    /\ seen = {visited[i] : i \in 1 .. Len(visited)}
    /\ seen \subseteq DOMAIN pid_dict
    /\ \A i \in 1 .. Len(visited) : Reached[i + 1] = pid_dict[visited[i]]
    /\ ps_pc = "loop" => ENABLED PsNext
    /\ ps_pc = "done" =>
          \/ pid \notin DOMAIN pid_dict
          \/ /\ \E i \in 1 .. Len(visited) : visited[i] = pid
             /\ \A k \in 1 .. Len(visited) :
                   \A i \in 1 .. (k - 1) : Reached[i] # Reached[k]

\* C10 witness: a walk through a cycle of three pids, entered from outside it,
\* has returned the pid at which it closed the cycle.
C10_Witness ==
    /\ ps_pc = "done"
    /\ Len(visited) = 4
    /\ pid = visited[2]
    /\ pid \in DOMAIN pid_dict

\* Whether the address lies in the kernel text or in a module of the list.
InTextOrModule(addr, mods) ==
    \/ text <= addr /\ addr < etext
    \/ \E i \in 1 .. Len(mods) : mods[i][2] <= addr /\ addr < mods[i][3]

\* The pairs of the first n op_members whose pointer is non-null and not in
\* the set Known, in the order of op_members.
RECURSIVE UnknownPairs(_, _)
UnknownPairs(n, Known) ==
    IF n = 0 THEN <<>>
    ELSE LET check == op_members[n]
             addr == fops[check]
             before == UnknownPairs(n - 1, Known)
         IN  IF addr # 0 /\ addr \notin Known
             THEN Append(before, <<check, addr>>)
             ELSE before

\* C7: over any sequence of verify_ops calls of one invocation, the range scan
\* is_known_address runs at most once per distinct address, every occurrence
\* of an address that was classified finds it in the cache afterwards, and all
\* occurrences of one address got the same classification, the cached one.
C7_ClassifyCachedOnce ==
    ops_pc # "off" =>
        \A a \in Addrs :
            /\ scans[a] <= 1
            /\ Cardinality(answers[a]) <= 1
            /\ answers[a] # {} =>
                  /\ scans[a] = 1
                  /\ a \in DOMAIN known_addrs
                  /\ answers[a] = {known_addrs[a]}

\* C7 witness: a second call has been answered from the cache for an address
\* the first call scanned.
C7_Witness ==
    /\ calls = 2
    /\ check_i = 2
    /\ fops["read"] # 0
    /\ scans[fops["read"]] = 1
    /\ scan_modules[fops["read"]] # modules
    /\ answers[fops["read"]] # {}

RECURSIVE OnlinePairs(_)
OnlinePairs(n) ==
    IF n = 0 THEN <<>>
    ELSE IF BitSet(bmap, n - 1)
         THEN Append(OnlinePairs(n - 1),
                     <<n - 1, get_per_cpu_symbol(per_var) + per_offsets(n - 1)>>)
         ELSE OnlinePairs(n - 1)

\* C6 as stated: when the walk has ended it has yielded exactly one pair per
\* online CPU, in ascending order, and none for a CPU whose bit is clear.
C6_OnePairPerOnlineCpu ==
    cpu_pc = "done" => cpu_yielded = OnlinePairs(NrCpuBits)

\* The lookup the claim describes, from the node n at level h: read the slot
\* for the index's 6-bit slice at this level, and descend into the node it
\* points to; absent (None) as soon as a slot on the way is null.
RECURSIVE Descend(_, _, _)
Descend(n, h, index) ==
    LET slot == NodeSlot(n, (index \div Capacity(h - 1)) % RADIX_TREE_MAP_SIZE)
    IN  IF slot = 0 THEN None
        ELSE IF h = 1 THEN slot
        ELSE Descend(slot, h - 1, index)

\* What the caller makes of a returned slot: None and a null slot are both
\* "no page".
Found(slot) == IF slot = None \/ slot = 0 THEN None ELSE slot

\* C4 as stated: a lookup through an indirect root whose node stores height h
\* ends by returning, having read exactly h slots (none when h <= 0, and then
\* it returns not-found), its height one lower after every read.
C4_ReadsExactlyHeightSlots ==
    /\ rt_pc \in {"loop", "after", "done", "ValueError"}
       /\ radix_tree_is_indirect_ptr(rnode) # 0
       => /\ rt_pc # "ValueError"
          /\ rt_height = stored_h - Len(rt_reads)
          /\ rt_pc = "done" =>
                /\ Len(rt_reads) = (IF stored_h > 0 THEN stored_h ELSE 0)
                /\ stored_h <= 0 => rt_result = None

\* C5 as stated: through an indirect root of height h >= 1 the lookup returns
\* what the level-by-level descent reaches, absent if a slot on the path is
\* null.
C5_LookupIsDescent ==
    /\ rt_pc = "done"
       /\ radix_tree_is_indirect_ptr(rnode) # 0
       /\ stored_h >= 1
       => Found(rt_result) = Descend(radix_tree_indirect_to_ptr(rnode), stored_h, rt_index)

\* The byte of the capture at a physical offset (never 0, so that a byte read
\* shows against a zero fill).
PhysByte(off) == 1 + (((off \div PAGE_SIZE) * 13 + (off % PAGE_SIZE)) % 255)

\* Byte k (from 0) of a byte string
RECURSIVE ByteAt(_, _)
ByteAt(str, k) ==
    IF k < Head(str).len
    THEN IF Head(str).src = "zero" THEN 0 ELSE PhysByte(Head(str).off + k)
    ELSE ByteAt(Tail(str), k - Head(str).len)

\* ceil(S / 4096)
PagesOf(size) == (size + PAGE_SIZE - 1) \div PAGE_SIZE

\* The offsets within a page at which the output is compared.
ProbedOffsets == {0, 1, PAGE_SIZE - 1}

\* C1: for every declared size and every page-cache population, the byte
\* sequence get_file_contents returns has exactly i_size bytes; before the
\* return it holds one whole page per index read.
C1_ExactDeclaredLength ==
    /\ fc_pc = "loop" => ByteLen(data) = fc_idx * PAGE_SIZE
    /\ fc_pc = "done" => ByteLen(data) = i_size

\* C1 witness: a file of one page and one byte, its second page not resident,
\* has been returned.
C1_Witness ==
    /\ fc_pc = "done"
    /\ i_size = PAGE_SIZE + 1
    /\ pages = {0}
    /\ tree_h = 1
    /\ fc_reads = <<0, 1>>

\* C2 as stated: the page indices 0 .. ceil(S/4096)-1 are read in ascending
\* order, each once, and byte k of the output is byte k mod 4096 of page
\* k div 4096 when that page is resident and 0 when it is not.
C2_BytesOfResidentPagesElseZero ==
    /\ fc_pc \in {"loop", "done"} =>
          /\ Len(fc_reads) = fc_idx
          /\ \A i \in 1 .. Len(fc_reads) : fc_reads[i] = i - 1
    /\ fc_pc = "done" =>
          /\ fc_idx = PagesOf(i_size)
          /\ \A p \in 0 .. (PagesOf(i_size) - 1) :
                \A j \in ProbedOffsets :
                    LET k == p * PAGE_SIZE + j
                    IN  k < i_size =>
                           ByteAt(data, k) =
                              IF p \in pages
                              THEN PhysByte(PageFrame(p) * PAGE_SIZE + j)
                              ELSE 0

\* The dentries on the d_parent chain of d, up to n links away.
RECURSIVE Ancestors(_, _)
Ancestors(d, n) ==
    IF n = 0 THEN {} ELSE {d_parent[d]} \cup Ancestors(d_parent[d], n - 1)

\* The walk is at a dentry whose d_parent chain leads back to it without
\* passing the root dentry; every name is readable and every mount's
\* mnt_parent chain ends at a mount that is its own parent.
OnInjectedCycle ==
    /\ path_pc = "walk"
    /\ dentry \in Ancestors(dentry, NDentries)
    /\ rdentry \notin Ancestors(dentry, NDentries)
    /\ \A d \in Dentries : d_name_valid[d]
    /\ mnt_parent[1] = 1

\* C3 as stated: on a dentry chain with an injected cycle do_get_path makes no
\* more upward steps than a fixed maximum.  The walk's next step is a function
\* of the pair (dentry, mount) it is at, so a walk that returns passes no pair
\* twice: the number of pairs is a maximum for every walk that ends.
C3_WalkWithinDepthBound ==
    OnInjectedCycle => path_steps <= NDentries * Cardinality(Mounts)


----------------------------------------------------------------------------
(***************************************************************************)
(* do_get_path: the string made of the collected segments                  *)
(***************************************************************************)
\* The segments joined root to leaf, as a returned call left them.
JoinedPath == Join(NonEmpty(ret_path))

SocketOrPipe(str) ==
    \/ StartsWith(str, <<"s", "o", "c", "k", "e", "t", ":">>)
    \/ StartsWith(str, <<"p", "i", "p", "e", ":">>)

HasClosingBracket(str) == \E i \in 1 .. Len(str) : str[i] = "]"

WithoutSlashes(str) == SelectSeq(str, LAMBDA c : c # "/")

InodeSuffix(n) == <<":", "[">> \o Decimal(n) \o <<"]">>

Inotify == <<"i", "n", "o", "t", "i", "f", "y">>

\* A call that collected a segment has returned.
ReturnedWithSegments == path_pc = "done" /\ ret_path # <<>>

\* C11 as stated: a socket: or pipe: path without ']' is returned as the
\* whole joined path followed by ":[<inode number>]"; one with ']' is returned
\* without its '/'; "inotify" is returned as it is; every other non-empty
\* path is returned behind one '/'.
C11_SuffixAfterWholePath ==
    ReturnedWithSegments =>
        IF SocketOrPipe(JoinedPath)
        THEN IF ~HasClosingBracket(JoinedPath)
             THEN ret_val = JoinedPath \o InodeSuffix(inode)
             ELSE ret_val = WithoutSlashes(JoinedPath)
        ELSE IF JoinedPath = Inotify
             THEN ret_val = Inotify
             ELSE JoinedPath # <<>> => ret_val = <<"/">> \o JoinedPath

\* C11 as the code has it: a socket: or pipe: path without ']' loses its
\* last character before ":[<inode number>]" is appended ("socket:" becomes
\* "socket:[<inode number>]"); one with ']' is returned without its '/';
\* "inotify" is returned as it is; every other path, the empty join of empty
\* segments included, is returned behind one '/'.
C11_SuffixReplacesLastCharacter ==
    ReturnedWithSegments =>
        IF SocketOrPipe(JoinedPath)
        THEN IF ~HasClosingBracket(JoinedPath)
             THEN ret_val = SubSeq(JoinedPath, 1, Len(JoinedPath) - 1)
                               \o InodeSuffix(inode)
             ELSE ret_val = WithoutSlashes(JoinedPath)
        ELSE IF JoinedPath = Inotify
             THEN ret_val = Inotify
             ELSE ret_val = <<"/">> \o JoinedPath

\* A socket: path whose bracket was never closed has been formatted.
C11_Witness ==
    /\ ReturnedWithSegments
    /\ JoinedPath = <<"s", "o", "c", "k", "e", "t", ":", "[", "1", "2">>
    /\ ret_val = <<"s", "o", "c", "k", "e", "t", ":", "[", "1", ":", "[",
                   "1", "0", "0", "1", "]">>

----------------------------------------------------------------------------
(***************************************************************************)
(* phys_addr_of_page                                                       *)
(***************************************************************************)
\* The start of the page array in the memory model a returned call used.
PageArrayBase ==
    IF pa_model = "flat" THEN mem_map_value ELSE VMEMMAP_START

\* C12 as stated: in both memory models the returned offset is the distance
\* of the page from the base times the size of struct page, shifted left
\* by 12.
C12_OffsetIsDistanceTimesSize ==
    pa_pc = "done" =>
        pa_phys_offset =
            (PtrSub(pa_page, PageArrayBase) * page_size_of) * (2 ^ PAGE_SHIFT)

\* C12 as the code has it: in both memory models the returned offset is a
\* whole number q of 4096-byte pages, and q is the distance of the page from
\* the base divided by the size of struct page, rounded down:
\* q * size <= page - base < (q + 1) * size.
C12_OffsetIsDistanceOverSize ==
    pa_pc = "done" =>
        /\ pa_mem_map_ptr = PageArrayBase
        /\ pa_phys_offset % (2 ^ PAGE_SHIFT) = 0
        /\ LET q == pa_phys_offset \div (2 ^ PAGE_SHIFT)
               distance == PtrSub(pa_page, PageArrayBase)
           IN  /\ q * page_size_of <= distance
               /\ distance < (q + 1) * page_size_of

\* A sparse-model call has returned the offset of the third page frame for a
\* pointer one byte into the third struct page.
C12_Witness ==
    /\ pa_pc = "done"
    /\ pa_model = "sparse"
    /\ page_size_of = 32
    /\ pa_page = <<15335424, 65>>
    /\ pa_phys_offset = 8192

\* C17: the flat model is used whenever mem_map resolves, the sparse model
\* only when mem_map does not resolve and mem_section does, and when neither
\* resolves the call ends in an error and no offset is computed or returned.
C17_ModelSelection ==
    /\ pa_pc \in {"compute", "done"} =>
           /\ mem_map_addr # NoSymbol =>
                  pa_model = "flat" /\ pa_mem_map_ptr = mem_map_value
           /\ mem_map_addr = NoSymbol =>
                  /\ mem_section_addr # NoSymbol
                  /\ pa_model = "sparse"
                  /\ pa_mem_map_ptr = VMEMMAP_START
    /\ mem_map_addr = NoSymbol /\ mem_section_addr = NoSymbol =>
           /\ pa_pc \in {"select", "exit", "UnboundLocalError"}
           /\ pa_phys_offset = None
           /\ pa_mem_map_ptr = Unbound

\* Both symbols resolve and the call has returned the offset of the flat model.
C17_Witness ==
    /\ pa_pc = "done"
    /\ mem_map_addr # NoSymbol
    /\ mem_section_addr # NoSymbol
    /\ pa_model = "flat"
    /\ pa_phys_offset # None

----------------------------------------------------------------------------
(***************************************************************************)
(* do_get_path: absent results                                             *)
(***************************************************************************)
\* The cases in which the walk collects nothing, told of the arguments: as
\* long as no pass of the loop was made, dentry and vfsmnt are the arguments.
NothingToCollect ==
    \/ rdentry = 0
    \/ dentry = 0
    \/ dentry = rdentry /\ vfsmnt = rmnt
    \/ ~d_name_valid[dentry]

\* C13: do_get_path returns the empty result exactly when no segment was
\* collected, which is when the root or the start dentry is not valid, when
\* the start is the root already, or when the first name is not valid; every
\* other call that returns gives a non-empty string.
C13_AbsentIffNothingCollected ==
    /\ [](path_pc = "done" => (ret_val = <<>> <=> path_steps = 0))
    /\ [](path_pc \in {"format", "done"} /\ path_steps = 0 => NothingToCollect)
    /\ [][path_steps = 0 /\ path_steps' > 0 => ~NothingToCollect]_vars

\* A call whose first name could not be read has returned the empty result.
C13_Witness ==
    /\ path_pc = "done"
    /\ ret_val = <<>>
    /\ rdentry # 0 /\ dentry # 0
    /\ dentry # rdentry \/ vfsmnt # rmnt
    /\ ~d_name_valid[dentry]

----------------------------------------------------------------------------
(***************************************************************************)
(* radix_tree_lookup_slot: a root that holds the item itself               *)
(***************************************************************************)
\* C14: when root.rnode is not tagged indirect, the lookup returns that
\* pointer for index 0 and None for every other index, and reads no slot of
\* any radix_tree_node.
C14_DirectRoot ==
    radix_tree_is_indirect_ptr(rnode) = 0 =>
        /\ rt_reads = <<>>
        /\ rt_pc \in {"start", "done"}
        /\ rt_pc = "done" =>
               IF rt_index = 0 THEN rt_result = rnode ELSE rt_result = None

\* A lookup of index 0 has returned the page a direct root holds.
C14_Witness ==
    /\ rt_pc = "done"
    /\ radix_tree_is_indirect_ptr(rnode) = 0
    /\ 0 \in pages
    /\ rt_index = 0
    /\ rt_result = PagePtr(0)

----------------------------------------------------------------------------
(***************************************************************************)
(* do_get_path: the steps of the walk                                      *)
(***************************************************************************)
\* The path of the segments in the order they were collected, leaf first:
\* each later segment goes in front, empty segments are left out.
RECURSIVE RootToLeaf(_)
RootToLeaf(collected) ==
    IF collected = <<>> THEN <<>>
    ELSE LET above == RootToLeaf(Tail(collected))
         IN  IF Head(collected) = <<>> THEN above
             ELSE IF above = <<>> THEN Head(collected)
             ELSE above \o <<"/">> \o Head(collected)

\* A pass of the walk loop is made.
WalkStep == path_steps' = path_steps + 1

\* C15: a pass at a dentry that is its mount's root or its own parent goes
\* to (mnt_mountpoint, mnt_parent) when the mount is not its own parent and
\* ends the walk when it is; any other pass goes to d_parent on the same
\* mount; every pass collects the name of the dentry it is at, and the
\* segments are returned joined from the root to the leaf.
C15_WalkStepRule ==
    /\ [][WalkStep =>
            /\ ret_path' = Append(ret_path, Strip(d_name[dentry]))
            /\ IF dentry = mnt_root[vfsmnt] \/ dentry = d_parent[dentry]
               THEN IF mnt_parent[vfsmnt] # vfsmnt
                    THEN /\ dentry' = mnt_mountpoint[vfsmnt]
                         /\ vfsmnt' = mnt_parent[vfsmnt]
                         /\ path_pc' = "walk"
                    ELSE /\ path_pc' = "format"
                         /\ dentry' = dentry /\ vfsmnt' = vfsmnt
               ELSE /\ dentry' = d_parent[dentry]
                    /\ vfsmnt' = vfsmnt
                    /\ path_pc' = "walk"]_vars
    /\ [][path_pc = "format" /\ path_pc' = "done" /\ ret_path # <<>>
            /\ ~SocketOrPipe(RootToLeaf(ret_path))
            /\ RootToLeaf(ret_path) # Inotify
          => ret_val' = <<"/">> \o RootToLeaf(ret_path)]_vars

\* A walk from "lib", the root of a mount on "usr", has crossed to the
\* parent mount and returned "/usr/lib".
C15_Witness ==
    /\ path_pc = "done"
    /\ d_parent[3] = 3
    /\ mnt_root[2] = 3
    /\ vfsmnt = 1
    /\ ret_val = <<"/", "u", "s", "r", "/", "l", "i", "b">>

----------------------------------------------------------------------------
(***************************************************************************)
(* do_get_path: a name that cannot be read in the middle of the walk       *)
(***************************************************************************)
\* The walk collected a segment and then stopped, short of the root pair, at
\* a dentry whose name is not valid.
StoppedAtInvalidName ==
    /\ path_pc = "done"
    /\ path_steps > 0
    /\ dentry # rdentry \/ vfsmnt # rmnt
    /\ ~d_name_valid[dentry]

\* C16: a walk that meets an invalid name after it collected a segment and
\* before it reached (rdentry, rmnt) returns the empty result, not a path
\* made of the segments collected so far.
C16_InvalidNameMidWalkIsAbsent ==
    StoppedAtInvalidName => ret_val = <<>>

----------------------------------------------------------------------------
(***************************************************************************)
(* get_partial_path                                                        *)
(***************************************************************************)
\* C18: the walk of get_partial_path ends on every dentry graph, at a null
\* dentry, at a dentry that is its own parent, or at a maximum depth.  A
\* walk that ends comes to no dentry twice, so it makes at most as many
\* passes as there are dentries, also on a d_parent cycle of length 2 or
\* more.
C18_PartialWalkWithinDepthBound ==
    gp_steps <= NDentries

----------------------------------------------------------------------------
(***************************************************************************)
(* PSTree.render                                                           *)
(***************************************************************************)
\* C19: render ends for every process dictionary and writes exactly one row
\* per process, also when the inheritance links hold a cycle with further
\* children on it: every pass of the outer loop removes an entry (each pass
\* starts with fewer entries than the one before), no process gets a second
\* row, and at the end every process has its row.
C19_OneRowPerProcess ==
    /\ \A i, j \in DOMAIN rows : rows[i] = rows[j] => i = j
    /\ \A k \in DOMAIN passes : k > 1 => passes[k] < passes[k - 1]
    /\ render_pc = "done" => {rows[i] : i \in DOMAIN rows} = DOMAIN parent_of

============================================================================
